---- MODULE Spec2Model ----
(***************************************************************************)
(* A model of three pieces of the gitoxide repository:                     *)
(*   - gix-archive  write_stream      (src/gix-archive/src/write.rs)      *)
(*   - gix          PrepareFetch::new (src/gix/src/clone/mod.rs)          *)
(*   - cargo-smart-release commit_changes, create_version_tag and          *)
(*     push_tags_and_head  (src/cargo-smart-release/.../release/git.rs)    *)
(*                                                                         *)
(* write_stream is modelled as a state machine whose steps are the         *)
(* fallible calls of the function, in program order: State::new, the raw   *)
(* copy of the passthrough format, and for the tar format next_entry, the  *)
(* drain of the entry into the scratch buffer, the append to the builder   *)
(* and the final finish().  Every `?` is a step with a failing outcome.    *)
(* The tar crate is outside the repository: the builder is modelled as the *)
(* sequence of (header, body) pairs handed to it and the count of finish() *)
(* calls write_stream makes; what the crate does with a path, a link       *)
(* target or a dropped builder is not part of the model.                   *)
(***************************************************************************)
EXTENDS Integers, Sequences, FiniteSets, TLC

\* Option<T> is a sequence of at most one element.
None == << >>
Some(x) == << x >>

(***************************************************************************)
(* Bounds and input sets                                                   *)
(***************************************************************************)
\* The longest entry stream handed to write_stream.
MaxEntries == 2

\* gix_object::tree::EntryMode
EntryModes == {"Tree", "Blob", "BlobExecutable", "Link", "Commit"}

\* Relative paths of stream entries.
RelPaths == {"a/b.txt"}

\* Entry contents (and raw stream bytes): byte strings of different lengths.
Contents == {<< >>, <<7>>, <<8, 9>>}

\* Options::tree_prefix
Prefixes == {None, Some("root/")}

\* Options::modification_time, in milliseconds relative to the Unix epoch.
Times == {-1500, 1500}

\* Options::format
Formats == {"InternalTransientNonPersistable", "Tar"}

Entries == [mode : EntryModes, relative_path : RelPaths, content : Contents]

Streams == UNION {[1..n -> Entries] : n \in 0..MaxEntries}

\* 0o755 and 0o644
Mode755 == 493
Mode644 == 420

VARIABLES
    opts,        \* Options {format, modification_time, tree_prefix}
    stream,      \* the Stream: its entries and its raw byte form
    state,       \* the variant of State: "unset", "Internal" or "Tar"
    buf,         \* the scratch buffer of State::Tar
    ar,          \* the tar::Builder: the entries appended so far
    finishCalls, \* number of successful ar.finish() calls made by write_stream
    out,         \* the bytes copied to the sink by the passthrough format
    nextCalls,   \* number of stream.next_entry() calls
    pos,         \* number of entries the stream has handed out
    entry,       \* the loop variable `entry`, None outside an iteration
    header,      \* the loop variable `header`
    pc,          \* position in write_stream
    result,      \* the return value: "none" while running, "Ok" or an Error
    fault,       \* the call that failed inside write_stream, "none" if none did
    run,         \* which of the two calls is executing
    prev,        \* Some(what the first call wrote) once it has returned Ok
    \* PrepareFetch::new
    cloneIn,     \* the arguments of PrepareFetch::new and what they meet on disk
    repoConfig,  \* Some(configuration of the new repository) once it exists
    cloneResult, \* "none" before the call, then "Ok" or the Error variant
    \* the release git helpers
    relOpts,     \* Options, empty_commit_possible and the tag name of the release
    commits,     \* number of commits `git commit` has added to the repository
    tags,        \* the tags created in the repository
    pushed,      \* the refs `git push` has sent to the remote
    ran,         \* the git commands that were run
    commitResult,\* <<"none">> before commit_changes is called, then its result
    tagResult,   \* the same for create_version_tag
    pushResult   \* the same for push_tags_and_head

cloneVars == <<cloneIn, repoConfig, cloneResult>>

releaseVars == <<relOpts, commits, tags, pushed, ran, commitResult, tagResult,
                 pushResult>>

vars == <<opts, stream, state, buf, ar, finishCalls, out, nextCalls, pos,
          entry, header, pc, result, fault, run, prev, cloneVars, releaseVars>>

(***************************************************************************)
(* Pure functions of write.rs                                              *)
(***************************************************************************)
tar_entry_type(mode) ==
    CASE mode \in {"Tree", "Commit"} -> "Directory"
      [] mode = "Blob"               -> "Regular"
      [] mode = "BlobExecutable"     -> "Regular"
      [] mode = "Link"               -> "Link"

\* A prefix joined to the path with a separator of its own.
add_prefix_sep(relative_path, prefix) ==
    IF prefix = None THEN relative_path
    ELSE prefix[1] \o "/" \o relative_path

add_prefix(relative_path, prefix) ==
    IF prefix = None THEN relative_path
    ELSE prefix[1] \o relative_path

\* The time of the call taken for the header instead of the option.
mtime_of_call(modification_time) == Some(run)

\* The duration taken in its own unit (as_millis) instead of as_secs.
mtime_unconverted(modification_time) ==
    IF modification_time < 0 THEN None
    ELSE Some(modification_time)

\* opts.modification_time.duration_since(UNIX_EPOCH).ok().map(|d| d.as_secs())
mtime_seconds_since_epoch(modification_time) ==
    IF modification_time < 0 THEN None
    ELSE Some(modification_time \div 1000)

\* The two permission values exchanged.
header_mode_swapped(mode) ==
    IF mode = "BlobExecutable" THEN Mode644 ELSE Mode755

\* header.set_mode(if matches!(entry.mode, BlobExecutable) {0o755} else {0o644})
header_mode(mode) ==
    IF mode = "BlobExecutable" THEN Mode755 ELSE Mode644

\* tar::Header::new_gnu(): an all-zero header, mtime 0, type byte Regular.
new_gnu ==
    [entry_type |-> "Regular", mode |-> 0, mtime |-> 0, size |-> 0,
     path |-> "", link |-> << >>]

\* State::new
State_new(format) ==
    IF format = "InternalTransientNonPersistable" THEN "Internal" ELSE "Tar"

\* What a call has written to its sink.
Output == [ar |-> ar, finishCalls |-> finishCalls, out |-> out]


\* No release is in progress.
NoRelease ==
    /\ relOpts = [verbose |-> FALSE, dry_run |-> TRUE, skip_tag |-> FALSE,
                  skip_push |-> FALSE, empty_commit_possible |-> FALSE,
                  tag_name |-> "v1.0.0"]
    /\ commits = 0
    /\ tags = {}
    /\ pushed = {}
    /\ ran = {}
    /\ commitResult = <<"none">>
    /\ tagResult = <<"none">>
    /\ pushResult = <<"none">>

\* PrepareFetch::new is not called.
NoClone ==
    /\ cloneIn = [url_parses |-> TRUE, url_canonicalizes |-> TRUE,
                  destination_must_be_empty |-> TRUE, destination_empty |-> TRUE,
                  config |-> {}]
    /\ repoConfig = None
    /\ cloneResult = "none"

(***************************************************************************)
(* Initial state: a stream and options, before write_stream is called      *)
(***************************************************************************)
Init ==
    /\ opts \in [format : Formats, modification_time : Times, tree_prefix : Prefixes]
    /\ stream \in [entries : Streams, raw : Contents]
    /\ state = "unset"
    /\ buf = << >>
    /\ ar = << >>
    /\ finishCalls = 0
    /\ out = << >>
    /\ nextCalls = 0
    /\ pos = 0
    /\ entry = None
    /\ header = new_gnu
    /\ pc = "start"
    /\ result = "none"
    /\ fault = "none"
    /\ run = 1
    /\ prev = None
    /\ NoClone
    /\ NoRelease

(***************************************************************************)
(* write_stream                                                            *)
(***************************************************************************)
\* let mut state = State::new(opts.format, out);  (line 12)
New ==
    /\ pc = "start"
    /\ state' = State_new(opts.format)
    /\ buf' = << >>
    /\ pc' = IF State_new(opts.format) = "Internal" THEN "copy_raw" ELSE "next_entry"
    /\ UNCHANGED <<releaseVars, cloneVars, opts, stream, ar, finishCalls, out, nextCalls, pos, entry,
                   header, result, fault, run, prev>>

\* The passthrough copy without its `return Ok(())`: control falls into the
\* entry loop.
CopyRawOk_FallThrough ==
    /\ pc = "copy_raw"
    /\ out' = out \o stream.raw
    /\ pc' = "next_entry"
    /\ UNCHANGED <<releaseVars, cloneVars, opts, stream, state, buf, ar, finishCalls, nextCalls, pos,
                   entry, header, result, fault, run, prev>>

\* std::io::copy(stream.as_read_mut(), out)?; return Ok(())  (lines 14-18)
CopyRawOk ==
    /\ pc = "copy_raw"
    /\ out' = out \o stream.raw
    /\ pc' = "returned"
    /\ result' = "Ok"
    /\ UNCHANGED <<releaseVars, cloneVars, opts, stream, state, buf, ar, finishCalls, nextCalls, pos,
                   entry, header, fault, run, prev>>

\* The copy fails after k bytes reached the sink.
CopyRawErr ==
    /\ pc = "copy_raw"
    /\ \E k \in 0..Len(stream.raw) :
          out' = out \o SubSeq(stream.raw, 1, k)
    /\ pc' = "returned"
    /\ fault' = "copy_raw"
    /\ result' = "Io"
    /\ UNCHANGED <<releaseVars, cloneVars, opts, stream, state, buf, ar, finishCalls, nextCalls, pos,
                   entry, header, run, prev>>

\* while let Some(mut entry) = stream.next_entry()?  (line 28): an entry
NextEntrySome ==
    /\ pc = "next_entry"
    /\ pos < Len(stream.entries)
    /\ nextCalls' = nextCalls + 1
    /\ pos' = pos + 1
    /\ entry' = Some(stream.entries[pos + 1])
    /\ pc' = "copy_entry"
    /\ UNCHANGED <<releaseVars, cloneVars, opts, stream, state, buf, ar, finishCalls, out, header,
                   result, fault, run, prev>>

\* next_entry() returns Ok(None): the stream is exhausted, the loop ends
NextEntryNone ==
    /\ pc = "next_entry"
    /\ pos = Len(stream.entries)
    /\ nextCalls' = nextCalls + 1
    /\ entry' = None
    /\ pc' = "finish"
    /\ UNCHANGED <<releaseVars, cloneVars, opts, stream, state, buf, ar, finishCalls, out, pos, header,
                   result, fault, run, prev>>

\* A failing next_entry() taken for the end of the stream.
NextEntryErr_Swallowed ==
    /\ pc = "next_entry"
    /\ nextCalls' = nextCalls + 1
    /\ entry' = None
    /\ pc' = "finish"
    /\ fault' = "next_entry"
    /\ UNCHANGED <<releaseVars, cloneVars, opts, stream, state, buf, ar, finishCalls, out, pos, header,
                   result, run, prev>>

\* next_entry() fails: `?` returns the stream's error
NextEntryErr ==
    /\ pc = "next_entry"
    /\ nextCalls' = nextCalls + 1
    /\ entry' = None
    /\ pc' = "returned"
    /\ fault' = "next_entry"
    /\ result' = "NextStreamEntry"
    /\ UNCHANGED <<releaseVars, cloneVars, opts, stream, state, buf, ar, finishCalls, out, pos, header,
                   run, prev>>

\* Lines 33-42: the header of one entry before its size and path are known.
build_header(mode, mtime) ==
    [new_gnu EXCEPT !.mtime = IF mtime = None THEN @ ELSE mtime[1],
                    !.entry_type = tar_entry_type(mode),
                    !.mode = header_mode(mode)]

\* The drain without the buf.clear() before it.
drain_no_clear(b, content) == b \o content

\* buf.clear(); std::io::copy(&mut entry, buf)  (lines 43-44), all of `content` read
drain(b, content) == << >> \o content

\* Lines 46-57 without the header.set_size(0) of the symlink branch.
frame_size_kept(h, e, b, prefix) ==
    LET path == add_prefix(e.relative_path, prefix)
        sized == [h EXCEPT !.size = Len(b)]
    IN  IF e.mode = "Link"
        THEN [hdr  |-> [sized EXCEPT !.entry_type = "Symlink",
                                     !.path = path, !.link = b],
              body |-> << >>]
        ELSE [hdr  |-> [sized EXCEPT !.path = path],
              body |-> b]

\* Lines 46-57 without the header.set_entry_type(Symlink) of the symlink
\* branch: the header keeps the type tar_entry_type gave it.
frame_type_kept(h, e, b, prefix) ==
    LET path == add_prefix(e.relative_path, prefix)
        sized == [h EXCEPT !.size = Len(b)]
    IN  IF e.mode = "Link"
        THEN [hdr  |-> [sized EXCEPT !.size = 0, !.path = path, !.link = b],
              body |-> << >>]
        ELSE [hdr  |-> [sized EXCEPT !.path = path],
              body |-> b]

\* Lines 46-57: the header and body handed to the builder for entry e,
\* whose content was drained into b.
frame(h, e, b, prefix) ==
    LET path == add_prefix(e.relative_path, prefix)
        sized == [h EXCEPT !.size = Len(b)]
    IN  IF e.mode = "Link"
        THEN \* ar.append_link(&mut header, path, target)
             [hdr  |-> [sized EXCEPT !.entry_type = "Symlink", !.size = 0,
                                     !.path = path, !.link = b],
              body |-> << >>]
        ELSE \* ar.append_data(&mut header, path, buf.as_slice())
             [hdr  |-> [sized EXCEPT !.path = path],
              body |-> b]

\* Lines 33-44 with the drain succeeding
CopyEntryOk ==
    /\ pc = "copy_entry"
    /\ header' = build_header(entry[1].mode,
                              mtime_seconds_since_epoch(opts.modification_time))
    /\ buf' = drain(buf, entry[1].content)
    /\ pc' = "append"
    /\ UNCHANGED <<releaseVars, cloneVars, opts, stream, state, ar, finishCalls, out, nextCalls, pos,
                   entry, result, fault, run, prev>>

\* Lines 33-44 with the entry's reader failing after k bytes: `?` returns
CopyEntryErr ==
    /\ pc = "copy_entry"
    /\ header' = build_header(entry[1].mode,
                              mtime_seconds_since_epoch(opts.modification_time))
    /\ \E k \in 0..Len(entry[1].content) :
          buf' = drain(buf, SubSeq(entry[1].content, 1, k))
    /\ pc' = "returned"
    /\ fault' = "copy_entry"
    /\ result' = "Io"
    /\ UNCHANGED <<releaseVars, cloneVars, opts, stream, state, ar, finishCalls, out, nextCalls, pos,
                   entry, run, prev>>

\* An append that puts the entry in front of the ones already written.
AppendOk_Front ==
    /\ pc = "append"
    /\ ar' = <<frame(header, entry[1], buf, opts.tree_prefix)>> \o ar
    /\ entry' = None
    /\ header' = new_gnu
    /\ pc' = "next_entry"
    /\ UNCHANGED <<releaseVars, cloneVars, opts, stream, state, buf, finishCalls, out, nextCalls, pos,
                   result, fault, run, prev>>

\* Lines 46-57 with the builder accepting the entry; the iteration ends and
\* `entry` and `header` are dropped.
AppendOk ==
    /\ pc = "append"
    /\ ar' = Append(ar, frame(header, entry[1], buf, opts.tree_prefix))
    /\ entry' = None
    /\ header' = new_gnu
    /\ pc' = "next_entry"
    /\ UNCHANGED <<releaseVars, cloneVars, opts, stream, state, buf, finishCalls, out, nextCalls, pos,
                   result, fault, run, prev>>

\* Lines 46-57 with the builder (or the sink under it) rejecting the entry
AppendErr ==
    /\ pc = "append"
    /\ pc' = "returned"
    /\ fault' = "append"
    /\ result' = "Io"
    /\ UNCHANGED <<releaseVars, cloneVars, opts, stream, state, buf, ar, finishCalls, out, nextCalls,
                   pos, entry, header, run, prev>>

\* A successful return that leaves out ar.finish().
FinishOk_NoFinish ==
    /\ pc = "finish"
    /\ state = "Tar"
    /\ pc' = "returned"
    /\ result' = "Ok"
    /\ UNCHANGED <<releaseVars, cloneVars, opts, stream, state, buf, ar, finishCalls, out, nextCalls,
                   pos, entry, header, fault, run, prev>>

\* ar.finish()?; Ok(())  (lines 62-70)
FinishOk ==
    /\ pc = "finish"
    /\ state = "Tar"
    /\ finishCalls' = finishCalls + 1
    /\ pc' = "returned"
    /\ result' = "Ok"
    /\ UNCHANGED <<releaseVars, cloneVars, opts, stream, state, buf, ar, out, nextCalls, pos, entry,
                   header, fault, run, prev>>

\* ar.finish() fails: `?` returns
FinishErr ==
    /\ pc = "finish"
    /\ state = "Tar"
    /\ pc' = "returned"
    /\ fault' = "finish"
    /\ result' = "Io"
    /\ UNCHANGED <<releaseVars, cloneVars, opts, stream, state, buf, ar, finishCalls, out, nextCalls,
                   pos, entry, header, run, prev>>

\* The caller writes the same stream content with the same Options a second
\* time: a new Stream, a new sink, and write_stream starts over.
SecondWrite ==
    /\ pc = "returned"
    /\ result = "Ok"
    /\ run = 1
    /\ run' = 2
    /\ prev' = Some(Output)
    /\ state' = "unset"
    /\ buf' = << >>
    /\ ar' = << >>
    /\ finishCalls' = 0
    /\ out' = << >>
    /\ nextCalls' = 0
    /\ pos' = 0
    /\ entry' = None
    /\ header' = new_gnu
    /\ pc' = "start"
    /\ result' = "none"
    /\ fault' = "none"
    /\ UNCHANGED <<releaseVars, cloneVars, opts, stream>>

Next ==
    \/ New
    \/ CopyRawOk
    \/ CopyRawErr
    \/ NextEntrySome
    \/ NextEntryNone
    \/ NextEntryErr
    \/ CopyEntryOk
    \/ CopyEntryErr
    \/ AppendOk
    \/ AppendErr
    \/ FinishOk
    \/ FinishErr
    \/ SecondWrite

Spec == Init /\ [][Next]_vars

(***************************************************************************)
(* Properties of write_stream                                              *)
(***************************************************************************)
Framed == opts.format = "Tar"

IsPrefix(a, b) == Len(a) <= Len(b) /\ a = SubSeq(b, 1, Len(a))

C2_OrderPreserved ==
    Framed =>
        /\ pos - Len(ar) \in {0, 1}
        /\ pc = "next_entry" => pos = Len(ar)
        /\ nextCalls > pos => Len(ar) = pos
        /\ \A i \in 1..Len(ar) :
              LET e == stream.entries[i]
                  r == ar[i]
              IN  /\ r.hdr.entry_type =
                        (CASE e.mode \in {"Tree", "Commit"} -> "Directory"
                           [] e.mode \in {"Blob", "BlobExecutable"} -> "Regular"
                           [] e.mode = "Link" -> "Symlink")
                  /\ (IF e.mode = "Link" THEN r.hdr.link ELSE r.body) = e.content

\* Two different entries have been appended.
C2_Witness ==
    /\ Framed
    /\ Len(ar) = 2
    /\ ar[1] # ar[2]
    /\ stream.entries[1].content # stream.entries[2].content

\* C3: every appended non-symlink entry declares as size the length of its
\* body, and its body is the content of its own entry, with nothing left of
\* an earlier entry.
C3_SizeIsBodyLength ==
    Framed =>
        \A i \in 1..Len(ar) :
            stream.entries[i].mode # "Link" =>
                /\ ar[i].hdr.size = Len(ar[i].body)
                /\ ar[i].body = stream.entries[i].content

\* A shorter non-symlink entry was appended after a longer one.
C3_Witness ==
    /\ Framed
    /\ Len(ar) = 2
    /\ stream.entries[2].mode # "Link"
    /\ Len(stream.entries[1].content) = 2
    /\ Len(stream.entries[2].content) = 1

\* C4: every appended symlink entry declares size zero, has no body, and
\* carries the drained content as its link target.
C4_SymlinkFraming ==
    Framed =>
        \A i \in 1..Len(ar) :
            stream.entries[i].mode = "Link" =>
                /\ ar[i].hdr.size = 0
                /\ ar[i].body = << >>
                /\ ar[i].hdr.link = stream.entries[i].content

\* A symlink with a non-empty target was appended.
C4_Witness ==
    /\ Framed
    /\ \E i \in 1..Len(ar) :
          /\ stream.entries[i].mode = "Link"
          /\ stream.entries[i].content # << >>

\* C5: in the passthrough format the sink holds a prefix of the raw bytes at
\* all times and exactly the raw bytes after a successful return; no entry is
\* pulled, no header built, nothing appended, no finish called; and the call
\* returns Ok once the copy completes.
C5_PassthroughFidelity ==
    opts.format = "InternalTransientNonPersistable" =>
        /\ nextCalls = 0
        /\ entry = None
        /\ header = new_gnu
        /\ ar = << >>
        /\ finishCalls = 0
        /\ IsPrefix(out, stream.raw)
        /\ (pc = "returned" /\ fault = "none") => (result = "Ok" /\ out = stream.raw)
        /\ result = "Ok" => out = stream.raw

\* A passthrough write of a non-empty raw stream has returned Ok.
C5_Witness ==
    /\ opts.format = "InternalTransientNonPersistable"
    /\ pc = "returned"
    /\ result = "Ok"
    /\ stream.raw # << >>
    /\ stream.entries # << >>

\* C6: a framed write that returned Ok has appended exactly the N entries of
\* the stream and called finish exactly once, and finish is called only
\* after next_entry reported the end of the stream.
C6_SuccessIsAllThenFinish ==
    Framed =>
        /\ finishCalls <= 1
        /\ finishCalls = 1 =>
              /\ pos = Len(stream.entries)
              /\ nextCalls = Len(stream.entries) + 1
              /\ Len(ar) = Len(stream.entries)
        /\ result = "Ok" =>
              /\ Len(ar) = Len(stream.entries)
              /\ finishCalls = 1
              /\ fault = "none"

\* A framed write of an empty stream has returned Ok.
C6_Witness ==
    /\ Framed
    /\ pc = "returned"
    /\ result = "Ok"
    /\ stream.entries = << >>
    /\ ar = << >>
    /\ finishCalls = 1

\* C7: an appended executable file has mode 0755 (493), an appended plain
\* file has mode 0644 (420).
C7_PermissionMapping ==
    Framed =>
        \A i \in 1..Len(ar) :
            /\ stream.entries[i].mode = "BlobExecutable" => ar[i].hdr.mode = 493
            /\ stream.entries[i].mode = "Blob" => ar[i].hdr.mode = 420

\* An executable and a plain file have both been appended.
C7_Witness ==
    /\ Framed
    /\ \E i \in 1..Len(ar) : stream.entries[i].mode = "BlobExecutable"
    /\ \E i \in 1..Len(ar) : stream.entries[i].mode = "Blob"

\* C8: the path of every appended entry is the prefix followed directly by
\* the relative path ("root/" and "a/b.txt" give "root/a/b.txt"), and the
\* relative path itself when there is no prefix.
C8_PrefixConcatenation ==
    Framed =>
        \A i \in 1..Len(ar) :
            LET rel == stream.entries[i].relative_path
            IN  /\ opts.tree_prefix = None => ar[i].hdr.path = rel
                /\ opts.tree_prefix # None =>
                      /\ ar[i].hdr.path = opts.tree_prefix[1] \o rel
                      /\ Len(ar[i].hdr.path) = Len(opts.tree_prefix[1]) + Len(rel)
                /\ (opts.tree_prefix = Some("root/") /\ rel = "a/b.txt") =>
                      ar[i].hdr.path = "root/a/b.txt"

\* An entry was appended under the prefix "root/".
C8_Witness ==
    /\ Framed
    /\ opts.tree_prefix = Some("root/")
    /\ Len(ar) >= 1
    /\ ar[1].hdr.path = "root/a/b.txt"

C11_EntryTypeFromMode ==
    Framed =>
        \A i \in 1..Len(ar) :
            LET m == stream.entries[i].mode
                t == ar[i].hdr.entry_type
            IN  /\ m \in {"Tree", "Commit"} => t = "Directory"
                /\ m \in {"Blob", "BlobExecutable"} => t = "Regular"
                /\ m = "Link" => (t = "Symlink" /\ t # "Link")

\* A symlink and a directory have both been appended.
C11_Witness ==
    /\ Framed
    /\ \E i \in 1..Len(ar) : stream.entries[i].mode = "Link"
    /\ \E i \in 1..Len(ar) : stream.entries[i].mode \in {"Tree", "Commit"}

\* C12: only regular files get permission bits from the writer, 0755 for
\* an executable file and 0644 for a plain one; the header of a directory or
\* a symlink keeps the mode a new header has, the writer having set none.
C12_OnlyRegularFilesGetMode ==
    Framed =>
        \A i \in 1..Len(ar) :
            LET m == stream.entries[i].mode
            IN  /\ m = "BlobExecutable" => ar[i].hdr.mode = 493
                /\ m = "Blob" => ar[i].hdr.mode = 420
                /\ m \in {"Tree", "Commit", "Link"} => ar[i].hdr.mode = new_gnu.mode

\* C13 as claimed: every appended header carries options.modification_time
\* in whole seconds since the Unix epoch, whatever the time, also one before
\* the epoch.
C13_MtimeAlwaysConverted ==
    Framed =>
        \A i \in 1..Len(ar) :
            ar[i].hdr.mtime = opts.modification_time \div 1000

\* C13 as amended: every appended header of one write carries the same
\* mtime; it is options.modification_time in whole seconds since the Unix
\* epoch when that time is not before the epoch, and the mtime of a new
\* header, 0, when it is, set_mtime not being called then.
C13_MtimeUniform ==
    Framed =>
        /\ \A i \in 1..Len(ar) :
              /\ opts.modification_time >= 0 =>
                    ar[i].hdr.mtime = opts.modification_time \div 1000
              /\ opts.modification_time < 0 => ar[i].hdr.mtime = 0
        /\ \A i, j \in 1..Len(ar) : ar[i].hdr.mtime = ar[j].hdr.mtime

\* Two entries were appended in a write whose modification_time is before
\* the epoch.
C13_Witness ==
    /\ Framed
    /\ opts.modification_time < 0
    /\ Len(ar) = 2
    /\ ar[1].hdr.mtime = 0

(***************************************************************************)
(* PrepareFetch::new  (src/gix/src/clone/mod.rs)                           *)
(***************************************************************************)
\* What the configuration visible to the new repository can hold about the
\* committer: a name and an email (committer.* or user.*), and the two
\* gitoxide.committer fallbacks.
ConfigKeys == {"name", "email", "nameFallback", "emailFallback"}

\* gitoxide::Committer::NAME_FALLBACK and EMAIL_FALLBACK
Fallbacks == {"nameFallback", "emailFallback"}

\* Repository::committer(): Some when a name and an email can be resolved,
\* each from its configured value or else from its fallback.
committer(config) ==
    /\ ("name" \in config \/ "nameFallback" \in config)
    /\ ("email" \in config \/ "emailFallback" \in config)

\* ThreadSafeRepository::init_opts succeeds unless it must find the
\* destination empty and does not.
init_opts(destination_empty, destination_must_be_empty) ==
    destination_must_be_empty => destination_empty

\* No write_stream call is in progress.
NoWrite ==
    /\ opts = [format |-> "Tar", modification_time |-> 1500, tree_prefix |-> None]
    /\ stream = [entries |-> << >>, raw |-> << >>]
    /\ state = "unset"
    /\ buf = << >>
    /\ ar = << >>
    /\ finishCalls = 0
    /\ out = << >>
    /\ nextCalls = 0
    /\ pos = 0
    /\ entry = None
    /\ header = new_gnu
    /\ pc = "idle"
    /\ result = "none"
    /\ fault = "none"
    /\ run = 1
    /\ prev = None

writeVars == <<opts, stream, state, buf, ar, finishCalls, out, nextCalls, pos,
               entry, header, pc, result, fault, run, prev>>

InitClone ==
    /\ NoWrite
    /\ cloneIn \in [url_parses : BOOLEAN, url_canonicalizes : BOOLEAN,
                    destination_must_be_empty : BOOLEAN,
                    destination_empty : BOOLEAN,
                    config : SUBSET ConfigKeys]
    /\ repoConfig = None
    /\ cloneResult = "none"
    /\ NoRelease

\* PrepareFetch::new that adds only the fallback name.
PrepareFetch_new_NameOnly ==
    /\ cloneResult = "none"
    /\ IF ~cloneIn.url_parses
       THEN cloneResult' = "UrlParse" /\ repoConfig' = None
       ELSE IF ~cloneIn.url_canonicalizes
       THEN cloneResult' = "CanonicalizeUrl" /\ repoConfig' = None
       ELSE IF ~init_opts(cloneIn.destination_empty, TRUE)
       THEN cloneResult' = "Init" /\ repoConfig' = None
       ELSE /\ repoConfig' =
                  Some(IF ~committer(cloneIn.config)
                       THEN cloneIn.config \cup {"nameFallback"}
                       ELSE cloneIn.config)
            /\ cloneResult' = "Ok"
    /\ UNCHANGED <<cloneIn, writeVars, releaseVars>>

\* PrepareFetch::new (lines 56-104)
PrepareFetch_new ==
    /\ cloneResult = "none"
    /\ IF ~cloneIn.url_parses
       THEN \* line 67
            cloneResult' = "UrlParse" /\ repoConfig' = None
       ELSE IF ~cloneIn.url_canonicalizes
       THEN \* lines 68-71
            cloneResult' = "CanonicalizeUrl" /\ repoConfig' = None
       ELSE IF ~init_opts(cloneIn.destination_empty, TRUE)
       THEN \* lines 72-73: destination_must_be_empty is forced to true
            cloneResult' = "Init" /\ repoConfig' = None
       ELSE \* lines 74-96
            /\ repoConfig' =
                  Some(IF ~committer(cloneIn.config)
                       THEN cloneIn.config \cup Fallbacks
                       ELSE cloneIn.config)
            /\ cloneResult' = "Ok"
    /\ UNCHANGED <<cloneIn, writeVars, releaseVars>>

NextClone == PrepareFetch_new

SpecClone == InitClone /\ [][NextClone]_vars

\* C10: after PrepareFetch::new has returned Ok the new repository has a
\* committer; if the configuration had none, both the fallback name and the
\* fallback email have been added to it (and nothing else), and if it had
\* one, the configuration is the one it started with.
C10_CommitterAfterNew ==
    cloneResult = "Ok" =>
        /\ repoConfig # None
        /\ committer(repoConfig[1])
        /\ ~committer(cloneIn.config) =>
              /\ "nameFallback" \in repoConfig[1]
              /\ "emailFallback" \in repoConfig[1]
              /\ repoConfig[1] \ {"nameFallback", "emailFallback"} =
                    cloneIn.config \ {"nameFallback", "emailFallback"}
        /\ committer(cloneIn.config) => repoConfig[1] = cloneIn.config

\* A repository was created where nothing about the committer was configured.
C10_Witness ==
    /\ cloneResult = "Ok"
    /\ cloneIn.config = {}
    /\ repoConfig = Some({"nameFallback", "emailFallback"})

(***************************************************************************)
(* The release git helpers                                                 *)
(* (src/cargo-smart-release/src/command/release/git.rs)                    *)
(***************************************************************************)
\* What tag_name_for gives for a top-level package and for another one.
TagNames == {"v1.0.0", "pkg-v1.0.0"}

\* The commit ids a caller can pass to create_version_tag.
CommitIds == {None, Some(1)}

\* format!("refs/tags/{}", tag_name)
full_tag_name(tag_name) == "refs/tags/" \o tag_name

InitRelease ==
    /\ NoWrite
    /\ NoClone
    /\ relOpts \in [verbose : BOOLEAN, dry_run : BOOLEAN, skip_tag : BOOLEAN,
                    skip_push : BOOLEAN, empty_commit_possible : BOOLEAN,
                    tag_name : TagNames]
    /\ commits = 0
    /\ tags = {}
    /\ pushed = {}
    /\ ran = {}
    /\ commitResult = <<"none">>
    /\ tagResult = <<"none">>
    /\ pushResult = <<"none">>

\* commit_changes (lines 103-127).  `git commit` either fails, or adds a
\* commit whose id is then read from HEAD, or adds one and HEAD cannot be read.
commit_changes ==
    /\ commitResult = <<"none">>
    /\ IF relOpts.dry_run
       THEN \* lines 119-121
            /\ commitResult' = <<"Ok", None>>
            /\ UNCHANGED <<commits, ran>>
       ELSE \* lines 123-126
            /\ ran' = ran \cup {"commit"}
            /\ \E outcome \in {"failed", "committed", "head_unreadable"} :
                  CASE outcome = "failed" ->
                          /\ commitResult' = <<"Err">>
                          /\ UNCHANGED commits
                    [] outcome = "committed" ->
                          /\ commits' = commits + 1
                          /\ commitResult' = <<"Ok", Some(commits + 1)>>
                    [] outcome = "head_unreadable" ->
                          /\ commits' = commits + 1
                          /\ commitResult' = <<"Err">>
    /\ UNCHANGED <<relOpts, tags, pushed, tagResult, pushResult, writeVars,
                   cloneVars>>

\* create_version_tag (lines 129-161), called with any commit id
create_version_tag ==
    /\ tagResult = <<"none">>
    /\ \E commit_id \in CommitIds :
          IF relOpts.skip_tag
          THEN \* lines 141-143
               /\ tagResult' = <<"Ok", None>>
               /\ UNCHANGED tags
          ELSE IF relOpts.dry_run
          THEN \* lines 149-153
               /\ tagResult' = <<"Ok", Some(full_tag_name(relOpts.tag_name))>>
               /\ UNCHANGED tags
          ELSE IF commit_id = None
          THEN \* line 157: expect("set in --execute mode") panics
               /\ tagResult' = <<"panic">>
               /\ UNCHANGED tags
          ELSE \* lines 155-159: the tag is created, or creating it fails
               \E created \in BOOLEAN :
                  IF created
                  THEN /\ tags' = tags \cup {relOpts.tag_name}
                       /\ tagResult' =
                             <<"Ok", Some(full_tag_name(relOpts.tag_name))>>
                  ELSE /\ tagResult' = <<"Err">>
                       /\ UNCHANGED tags
    /\ UNCHANGED <<relOpts, commits, pushed, ran, commitResult, pushResult,
                   writeVars, cloneVars>>

\* push_tags_and_head with `cmd.status()?.success() || options.dry_run`: the
\* command is run before dry_run is looked at.
push_tags_and_head_StatusFirst ==
    /\ pushResult = <<"none">>
    /\ \E tag_names \in SUBSET {full_tag_name(relOpts.tag_name)} :
          IF relOpts.skip_push
          THEN /\ pushResult' = <<"Ok">>
               /\ UNCHANGED <<pushed, ran>>
          ELSE /\ ran' = ran \cup {"push"}
               /\ \E success \in BOOLEAN :
                     IF success
                     THEN /\ pushed' = pushed \cup {"HEAD"} \cup tag_names
                          /\ pushResult' = <<"Ok">>
                     ELSE /\ pushResult' =
                                (IF relOpts.dry_run THEN <<"Ok">> ELSE <<"Err">>)
                          /\ UNCHANGED pushed
    /\ UNCHANGED <<relOpts, commits, tags, commitResult, tagResult, writeVars,
                   cloneVars>>

\* push_tags_and_head (lines 164-183), called with any of the tag names
push_tags_and_head ==
    /\ pushResult = <<"none">>
    /\ \E tag_names \in SUBSET {full_tag_name(relOpts.tag_name)} :
          IF relOpts.skip_push
          THEN \* lines 165-167
               /\ pushResult' = <<"Ok">>
               /\ UNCHANGED <<pushed, ran>>
          ELSE IF relOpts.dry_run
          THEN \* line 178: `||` does not evaluate cmd.status()
               /\ pushResult' = <<"Ok">>
               /\ UNCHANGED <<pushed, ran>>
          ELSE \* lines 178-182: git push runs and succeeds or fails
               /\ ran' = ran \cup {"push"}
               /\ \E success \in BOOLEAN :
                     IF success
                     THEN /\ pushed' = pushed \cup {"HEAD"} \cup tag_names
                          /\ pushResult' = <<"Ok">>
                     ELSE /\ pushResult' = <<"Err">>
                          /\ UNCHANGED pushed
    /\ UNCHANGED <<relOpts, commits, tags, commitResult, tagResult, writeVars,
                   cloneVars>>

NextRelease ==
    \/ commit_changes
    \/ create_version_tag
    \/ push_tags_and_head

SpecRelease == InitRelease /\ [][NextRelease]_vars

====
